---- MODULE Spec2Model ----
(***************************************************************************)
(* Connection orchestration of the Nabzram UI (src/ui): the App component  *)
(* (status polling, data load, global auto-connect, stop), the             *)
(* SubscriptionItem and ServerItem components (per-subscription            *)
(* auto-connect, per-server connect) and the ranking selector they share.  *)
(* The backend tunnel supervisor is not part of src/ and is modelled from  *)
(* its specified contract.                                                 *)
(***************************************************************************)
EXTENDS Integers, Sequences, FiniteSets, Bags, TLC

(***************************************************************************)
(* Bounds                                                                  *)
(***************************************************************************)
MaxResults == 1        \* longest url-test response of the orchestration model
MaxPing == 1           \* largest latency reading in the orchestration model
MaxSelectLen == 3      \* longest result sequence handed to the selector alone
MaxSelectPing == 2     \* largest latency reading handed to the selector alone
MaxInFlight == 2       \* calls and requests the user interface has in flight at once
MaxSources == 3        \* EventSources one mounted LogStreamModal creates
\* setInterval(fetchStatus, 5000): the period in seconds
PollPeriod == 5

MaxClock == 11         \* seconds of observed time after the mount

MaxEvents == 2         \* events one mounted LogStreamModal receives

Subs == {"S1", "S2", "S3"}

\* the servers of a subscription (S3 holds none); server ids are unique
\* across subscriptions
ServersOf(s) == IF s = "S3" THEN {} ELSE {s \o "a"}

ServerIds == UNION {ServersOf(s) : s \in Subs}

\* server ids of the stand-alone selector runs (A, B, C of the example)
SelectServers == {"A", "B", "C"}

NoServer == "null"

(***************************************************************************)
(* Sequences helpers                                                       *)
(***************************************************************************)
SeqsUpTo(S, n) == UNION {[1..k -> S] : k \in 0..n}

Range(q) == {q[k] : k \in DOMAIN q}

\* the catalog lists subscriptions in creation order; any of them may have
\* been deleted (a subscription added again gets a new id)
CreationOrder == <<"S1", "S2", "S3">>

IsSubSeq(q, full) ==
    \E f \in [DOMAIN q -> DOMAIN full] :
        /\ \A k \in DOMAIN q : q[k] = full[f[k]]
        /\ \A a, b \in DOMAIN q : a < b => f[a] < f[b]

\* values of the subscriptions list
SubLists == {q \in SeqsUpTo(Subs, Len(CreationOrder)) : IsSubSeq(q, CreationOrder)}

(***************************************************************************)
(* types.ts                                                                *)
(***************************************************************************)
\* ServerTestResult: ping_ms is number | null; ping_null stands for
\* ping_ms === null and ping_ms then reads 0. The wire shape allows any
\* reading with any success flag, negative and zero readings included
ServerTestResult(ids, minPing, maxPing) ==
    {r \in [server_id : ids, success : BOOLEAN, ping_null : BOOLEAN,
            ping_ms : minPing..maxPing] : r.ping_null => r.ping_ms = 0}

\* ServerStatusResponse: the fields the components read
\* (status, server_id and remarks; remarks is the display name of the running
\* server, a function of its id)
RemarksOf(id) == "remarks of " \o id

StatusStopped ==
    [status |-> "stopped", server_id |-> NoServer, remarks |-> NoServer]

StatusError ==
    [status |-> "error", server_id |-> NoServer, remarks |-> NoServer]

StatusRunning(id) ==
    [status |-> "running", server_id |-> id, remarks |-> RemarksOf(id)]

ServerStatusResponse ==
    {StatusStopped, StatusError} \cup {StatusRunning(id) : id \in ServerIds}

NullStatus == [status |-> "null", server_id |-> NoServer, remarks |-> NoServer]

(***************************************************************************)
(* Ranking selector: results.filter(...).sort(...)[0]                      *)
(***************************************************************************)
\* variant: the comparator written the other way round, (a, b) => b - a
ComparePing_Descending(a, b) == b.ping_ms - a.ping_ms

\* the comparator (a, b) => a.ping_ms - b.ping_ms
ComparePing(a, b) == a.ping_ms - b.ping_ms

\* variant: a sort that is not stable, x goes before its equals
RECURSIVE SortInsert_Unstable(_, _)
SortInsert_Unstable(x, sorted) ==
    IF sorted = <<>> THEN <<x>>
    ELSE IF ComparePing(Head(sorted), x) >= 0 THEN <<x>> \o sorted
    ELSE <<Head(sorted)>> \o SortInsert_Unstable(x, Tail(sorted))

\* Array.prototype.sort is stable: x goes behind every element that does not
\* compare greater than it
RECURSIVE SortInsert(_, _)
SortInsert(x, sorted) ==
    IF sorted = <<>> THEN <<x>>
    ELSE IF ComparePing(Head(sorted), x) > 0 THEN <<x>> \o sorted
    ELSE <<Head(sorted)>> \o SortInsert(x, Tail(sorted))

RECURSIVE SortByPing(_)
SortByPing(q) ==
    IF q = <<>> THEN <<>>
    ELSE SortInsert(q[Len(q)], SortByPing(SubSeq(q, 1, Len(q) - 1)))

\* variant: the filter without the checks of ping_ms
AppEligible_SuccessOnly(r) == r.success

\* App.handleAutoConnect: r => r.success && r.ping_ms !== null && r.ping_ms > 0
AppEligible(r) == r.success /\ ~r.ping_null /\ r.ping_ms > 0

AppSuccessfulTests(results) ==
    SortByPing(SelectSeq(results, AppEligible))

\* SubscriptionItem.handleAutoConnect: the same filter, written again there
ItemEligible(r) == r.success /\ ~r.ping_null /\ r.ping_ms > 0

ItemSuccessfulTests(results) ==
    SortByPing(SelectSeq(results, ItemEligible))

\* the PingResult component: the text it renders, ping_ms standing for
\* `${result.ping_ms} ms`
PingResult(result) ==
    IF ~result.success \/ result.ping_null
    THEN [text |-> "Timeout", ping_ms |-> 0]
    ELSE [text |-> "ms", ping_ms |-> result.ping_ms]

(***************************************************************************)
(* State                                                                   *)
(***************************************************************************)
VARIABLES
    subscriptions,   \* App: useState<Subscription[]>
    currentStatus,   \* App: useState<ServerStatusResponse | null>
    xrayStatus,      \* App: useState<SystemInfo | null>: "null", "available", "missing"
    isLoading,       \* App
    isConnecting,    \* App
    run,             \* the call of App.handleAutoConnect in progress
    runOut,          \* what its latest step executed: branch, addToast and api calls
    itemCalls,       \* calls of SubscriptionItem.handleAutoConnect / handleTestServers in progress
    connectCalls,    \* calls of ServerItem.handleConnect in progress
    statusReqs,      \* getServerStatus requests of fetchStatus on their way to the backend
    dataReqs,        \* fetchData calls whose getServerStatus is on its way to the backend
    statusResps,     \* getServerStatus responses on their way back, for either caller
    stopReqs,        \* stopServer requests of handleStopServer in flight
    tunnel,          \* backend: the TunnelState
    fetchOut,        \* addToast and console.error of the latest fetchData / fetchStatus outcome
    deleteState,     \* SubscriptionItem: isDeleteModalOpen and isDeleting of each mounted item
    deleteCalls,     \* calls of SubscriptionItem.handleConfirmDelete in progress
    deleteOut,       \* what the latest completion of handleConfirmDelete executed
    sel,             \* a stand-alone run of the selector: its input and picks
    logModal,        \* the LogStreamModal and its EventSource
    poll,            \* the interval timer of the App mount effect and the clock
    http             \* a stand-alone call of handleResponse: the Response and the outcome

vars == <<subscriptions, currentStatus, xrayStatus, isLoading, isConnecting,
          run, runOut, itemCalls, connectCalls, statusReqs, dataReqs,
          statusResps, stopReqs, tunnel, fetchOut, deleteState, deleteCalls,
          deleteOut, sel, logModal, poll, http>>

\* no ServerTestResult held
NoResult == [server_id |-> NoServer, success |-> FALSE, ping_null |-> TRUE,
             ping_ms |-> 0]

\* pc: "idle" (no call in progress), "testing" (awaiting
\* testSubscriptionServers), "starting" (awaiting startServer); subs is the
\* subscriptions array the call closed over, i the position of sub in it
IdleRun == [pc |-> "idle", subs |-> <<>>, i |-> 0, bestServer |-> NoResult]

\* entries of runOut: the branch a step took ("found": the if of line 123
\* taken, "none": not taken, "catch": the catch block), an addToast call
\* (sub and server_id are the names the message carries), an api call
Branch(name) ==
    [eff |-> "branch", kind |-> name, type |-> "-", sub |-> "-",
     server_id |-> NoServer, detail |-> "-"]

Toast(type, msg, sub, id) ==
    [eff |-> "toast", kind |-> msg, type |-> type, sub |-> sub,
     server_id |-> id, detail |-> "-"]

\* the toast of the catch block: `Skipping ${sub.name}: ${detail}`, where
\* detail is the message of the rejected request, named here by the request
SkipToast(sub, detail) ==
    [Toast("error", "Skipping", sub, NoServer) EXCEPT !.detail = detail]

Api(name, sub, id) ==
    [eff |-> "api", kind |-> name, type |-> "-", sub |-> sub,
     server_id |-> id, detail |-> "-"]

\* an entry of fetchOut: console.error(msg, err)
ConsoleError(msg) ==
    [eff |-> "console.error", kind |-> msg, type |-> "-", sub |-> "-",
     server_id |-> NoServer, detail |-> "-"]

\* logModal: phase is "closed" (isLogsModalOpen false), "open", or "crashed"
\* (a render threw and React unmounted the tree); logs, isConnected and
\* logIdCounter are the component's state and ref; effectFor is <<>> before
\* the effect ran and else <<the isConnected its closures captured>>; es is
\* the readyState of the EventSource the effect created ("none" before);
\* sources counts the EventSources created since the mount; received lists
\* the id and event type of the events handleEvent was called with; live
\* counts the EventSources created and not closed, of this mount or an
\* earlier one
NoLogModal ==
    [phase |-> "closed", logs |-> <<>>, isConnected |-> FALSE,
     logIdCounter |-> 0, effectFor |-> <<>>, es |-> "none", sources |-> 0,
     received |-> <<>>, live |-> 0]

\* the interval of the App mount effect is set; timed is whether the
\* behaviour observes the clock (seconds since the mount), due is when the
\* interval fires next and sent lists the times its fetchStatus calls were made
NoPoll == [timed |-> FALSE, interval |-> "set", clock |-> 0, due |-> PollPeriod,
           sent |-> <<>>]

\* recorded is whether the behaviour keeps what fetchData and fetchStatus
\* report; calls is then what the latest outcome of either executed
NoFetchOut == [recorded |-> FALSE, calls |-> <<>>]

\* fetchOut after an outcome that executed calls
Reported(calls) ==
    [fetchOut EXCEPT !.calls = IF fetchOut.recorded THEN calls ELSE <<>>]

\* http outside a stand-alone call of handleResponse
NoHttp == [response |-> <<>>, outcome |-> <<>>]

\* every SubscriptionItem as useState initialises it
NoDeleteState ==
    [s \in Subs |-> [isDeleteModalOpen |-> FALSE, isDeleting |-> FALSE]]

\* sel outside a stand-alone selector run
NoSelect == [results |-> <<>>, app |-> <<>>, item |-> <<>>, shown |-> <<>>]

\* a call of a SubscriptionItem handler: handler is "auto" or "test"; pc is
\* "servers" (awaiting fetchServers), "testing" or "starting"; mounted is
\* whether the component instance that made the call still exists
ItemCall(handler, sub, pc, best, mounted) ==
    [handler |-> handler, sub |-> sub, pc |-> pc, bestServer |-> best,
     mounted |-> mounted]

\* a call of SubscriptionItem.handleConfirmDelete awaiting deleteSubscription
DeleteCall(sub, mounted) == [sub |-> sub, mounted |-> mounted]

ConnectCall(id, mounted) == [server_id |-> id, mounted |-> mounted]

\* a getServerStatus response: the snapshot the backend answered with, for
\* fetchStatus ("status") or for the Promise.all of fetchData ("data")
StatusResp(for, status) == [for |-> for, status |-> status]

RespsFor(for) == {r \in BagToSet(statusResps) : r.for = for}

InFlight ==
    (IF run.pc = "idle" THEN 0 ELSE 1) + statusReqs + dataReqs + stopReqs
    + BagCardinality(statusResps)
    + BagCardinality(itemCalls) + BagCardinality(connectCalls)
    + BagCardinality(deleteCalls)

\* the App just mounted: its useState initial values, the fetchData call of
\* the mount effect in flight, the backend stopped
InitApp ==
    /\ subscriptions = <<>>
    /\ currentStatus = NullStatus
    /\ xrayStatus = "null"
    /\ isLoading = TRUE
    /\ isConnecting = FALSE
    /\ run = IdleRun
    /\ runOut = <<>>
    /\ itemCalls = EmptyBag
    /\ connectCalls = EmptyBag
    /\ statusReqs = 0
    /\ dataReqs = 1
    /\ statusResps = EmptyBag
    /\ stopReqs = 0
    /\ tunnel = StatusStopped
    /\ deleteState = NoDeleteState
    /\ deleteCalls = EmptyBag
    /\ deleteOut = <<>>

Init ==
    /\ InitApp
    /\ sel = NoSelect
    /\ logModal = NoLogModal
    /\ poll = NoPoll
    /\ fetchOut = NoFetchOut
    /\ http = NoHttp

aloneVars == <<sel, logModal, http>>

deleteVars == <<deleteState, deleteCalls, deleteOut>>

appVars == <<subscriptions, currentStatus, xrayStatus, isLoading>>

runVars == <<isConnecting, run, runOut>>

\* everything but the stand-alone components
appState == <<appVars, runVars, itemCalls, connectCalls, statusReqs,
              statusResps, dataReqs, stopReqs, tunnel, fetchOut, deleteVars>>

(***************************************************************************)
(* Backend tunnel supervisor (contract of Start, Stop, Status)             *)
(***************************************************************************)
\* Start(server) succeeded: the tunnel runs that server and nothing else
BackendStartOk(id) == StatusRunning(id)

\* Start failed: the prior state is kept (request refused or lost) or the
\* supervisor is left in Error
BackendStartFail == {tunnel, StatusError}

BackendStop == StatusStopped

\* Status(): answers a request with a snapshot of the TunnelState
BackendStatus ==
    /\ \/ /\ statusReqs > 0
          /\ statusReqs' = statusReqs - 1
          /\ statusResps' = statusResps (+)
                 SetToBag({StatusResp("status", tunnel)})
          /\ UNCHANGED dataReqs
       \/ /\ dataReqs > 0
          /\ dataReqs' = dataReqs - 1
          /\ statusResps' = statusResps (+)
                 SetToBag({StatusResp("data", tunnel)})
          /\ UNCHANGED statusReqs
    /\ UNCHANGED <<aloneVars, poll, deleteVars, fetchOut, appVars, runVars, itemCalls, connectCalls,
                   stopReqs, tunnel>>

\* the engine process exits unexpectedly while Running
BackendCrash ==
    /\ tunnel.status = "running"
    /\ tunnel' = StatusError
    /\ UNCHANGED <<aloneVars, poll, deleteVars, fetchOut, appVars, runVars, itemCalls, connectCalls, statusReqs, statusResps,
                   dataReqs, stopReqs>>

(***************************************************************************)
(* Rendering                                                               *)
(***************************************************************************)
\* the App is mounted until the cleanup of its mount effect has run
AppMounted == poll.interval = "set"

\* App.renderContent shows StatusIndicator and SubscriptionList
ContentShown == AppMounted /\ ~isLoading /\ xrayStatus # "missing"

\* StatusIndicator: isConnected, isXrayAvailable, the button's disabled
IsConnected == currentStatus.status = "running"

IsXrayAvailable == xrayStatus = "available"

\* variant: the button is disabled only without the engine
PowerButtonEnabled_WhileConnecting == ContentShown /\ IsXrayAvailable

PowerButtonEnabled == ContentShown /\ ~(isConnecting \/ ~IsXrayAvailable)

\* SubscriptionList renders one SubscriptionItem per subscription
ItemShown(s) == ContentShown /\ s \in Range(subscriptions)

\* SubscriptionItem: isAutoConnecting and isTesting are true from the start
\* of the handler to its end, in the component instance that made the call
IsAutoConnecting(s) ==
    \E c \in BagToSet(itemCalls) :
        c.handler = "auto" /\ c.sub = s /\ c.mounted

IsTesting(s) ==
    \E c \in BagToSet(itemCalls) :
        c.handler = "test" /\ c.sub = s /\ c.mounted

\* ServerItem: its own isConnecting
ServerIsConnecting(id) ==
    \E c \in BagToSet(connectCalls) : c.server_id = id /\ c.mounted

\* variant: isConnected without the comparison of server_id
ServerIsConnected_AnyRunning(id) == currentStatus.status = "running"

\* the isConnected prop SubscriptionItem computes for a ServerItem
ServerIsConnected(id) ==
    currentStatus.status = "running" /\ currentStatus.server_id = id

\* the content is replaced by the spinner: every SubscriptionItem and
\* ServerItem is unmounted and its state is lost; calls in progress go on
Unmounted(calls) ==
    LET off(c) == [c EXCEPT !.mounted = FALSE]
        copies(c) == IF c \in DOMAIN calls THEN calls[c] ELSE 0
    IN [c \in {off(x) : x \in DOMAIN calls} |->
            copies(c) + copies([c EXCEPT !.mounted = TRUE])]

\* the items of the subscriptions in gone leave the list (their key is no
\* longer rendered): the same for their calls and those of their server rows
UnmountedOf(calls, gone) ==
    LET Gone(c) == IF "sub" \in DOMAIN c THEN c.sub \in gone
                   ELSE \E s \in gone : c.server_id \in ServersOf(s)
        on(c) == [c EXCEPT !.mounted = TRUE]
        off(c) == IF Gone(c) THEN [c EXCEPT !.mounted = FALSE] ELSE c
        copies(c) == IF c \in DOMAIN calls THEN calls[c] ELSE 0
    IN [c \in {off(x) : x \in DOMAIN calls} |->
            copies(c) + (IF ~c.mounted /\ Gone(c) THEN copies(on(c)) ELSE 0)]

\* the subscriptions whose SubscriptionItem does not live on when the
\* content is rendered with the list subs and the engine info xray
GoneItems(subs, xray) ==
    IF ContentShown /\ xray # "missing"
    THEN Subs \ (Range(subscriptions) \cap Range(subs))
    ELSE Subs

(***************************************************************************)
(* App.fetchData                                                           *)
(***************************************************************************)
\* up to the await; called on mount, by the success callbacks of the modals
\* and as refreshList
FetchData ==
    /\ InFlight < MaxInFlight
    /\ isLoading' = TRUE
    /\ dataReqs' = dataReqs + 1
    /\ itemCalls' = Unmounted(itemCalls)
    /\ connectCalls' = Unmounted(connectCalls)
    /\ deleteState' = NoDeleteState
    /\ deleteCalls' = Unmounted(deleteCalls)
    /\ UNCHANGED <<aloneVars, poll, fetchOut, deleteOut, subscriptions, currentStatus,
                   xrayStatus, runVars, statusReqs, statusResps, stopReqs,
                   tunnel>>

\* Promise.all resolved: the three setters, then finally
FetchDataOk ==
    /\ \E r \in RespsFor("data") :
          /\ currentStatus' = r.status
          /\ statusResps' = statusResps (-) SetToBag({r})
    /\ \E subs \in SubLists, xray \in {"available", "missing"} :
          /\ subscriptions' = subs
          /\ xrayStatus' = xray
          /\ itemCalls' = UnmountedOf(itemCalls, GoneItems(subs, xray))
          /\ connectCalls' = UnmountedOf(connectCalls, GoneItems(subs, xray))
          /\ deleteCalls' = UnmountedOf(deleteCalls, GoneItems(subs, xray))
          /\ deleteState' =
                 [s \in Subs |-> IF s \in GoneItems(subs, xray)
                                 THEN NoDeleteState[s] ELSE deleteState[s]]
    /\ isLoading' = FALSE
    /\ fetchOut' = Reported(<<>>)
    /\ UNCHANGED <<aloneVars, poll, deleteOut, runVars, statusReqs, dataReqs,
                   stopReqs, tunnel>>

\* variant: the requests awaited one after the other, each followed by its
\* setter, so that a later rejection leaves the earlier results set
FetchDataFail_Partial ==
    /\ \/ /\ dataReqs > 0
          /\ dataReqs' = dataReqs - 1
          /\ UNCHANGED statusResps
       \/ /\ \E r \in RespsFor("data") :
                statusResps' = statusResps (-) SetToBag({r})
          /\ UNCHANGED dataReqs
    /\ subscriptions' \in SubLists
    /\ fetchOut' =
           Reported(<<Toast("error", "FailedToLoadData", "-", NoServer)>>)
    /\ isLoading' = FALSE
    /\ UNCHANGED <<aloneVars, poll, deleteVars, currentStatus, xrayStatus,
                   runVars, itemCalls, connectCalls, statusReqs, stopReqs,
                   tunnel>>

\* one of the three requests rejected: catch, then finally
FetchDataFail ==
    /\ \/ /\ dataReqs > 0
          /\ dataReqs' = dataReqs - 1
          /\ UNCHANGED statusResps
       \/ /\ \E r \in RespsFor("data") :
                statusResps' = statusResps (-) SetToBag({r})
          /\ UNCHANGED dataReqs
    /\ fetchOut' =
           Reported(<<Toast("error", "FailedToLoadData", "-", NoServer)>>)
    /\ isLoading' = FALSE
    /\ UNCHANGED <<aloneVars, poll, deleteVars, subscriptions, currentStatus,
                   xrayStatus, runVars, itemCalls, connectCalls, statusReqs,
                   stopReqs, tunnel>>

(***************************************************************************)
(* App.fetchStatus                                                         *)
(***************************************************************************)
\* variant: no interval, the status is read only after an operation
PollStatus_Never ==
    /\ FALSE
    /\ UNCHANGED vars

\* the interval fires and calls fetchStatus: PollPeriod after the mount or
\* the previous firing where the clock is observed, at any moment otherwise
PollStatus ==
    /\ poll.interval = "set"
    /\ poll.timed => poll.clock = poll.due
    /\ InFlight < MaxInFlight
    /\ statusReqs' = statusReqs + 1
    /\ poll' = IF poll.timed
               THEN [poll EXCEPT !.due = @ + PollPeriod,
                                 !.sent = Append(@, poll.clock)]
               ELSE poll
    /\ UNCHANGED <<aloneVars, deleteVars, fetchOut, appVars, runVars,
                   itemCalls, connectCalls, dataReqs, statusResps, stopReqs,
                   tunnel>>

\* variant: the response merged into the previous state, which keeps its
\* server_id
FetchStatusOk_Merged ==
    /\ \E r \in RespsFor("status") :
          /\ currentStatus' =
                 [r.status EXCEPT !.server_id = currentStatus.server_id]
          /\ statusResps' = statusResps (-) SetToBag({r})
    /\ fetchOut' = Reported(<<>>)
    /\ UNCHANGED <<aloneVars, poll, deleteVars, subscriptions, xrayStatus,
                   isLoading, runVars, itemCalls, connectCalls, statusReqs,
                   dataReqs, stopReqs, tunnel>>

\* getServerStatus resolved: setCurrentStatus(status)
FetchStatusOk ==
    /\ \E r \in RespsFor("status") :
          /\ currentStatus' = r.status
          /\ statusResps' = statusResps (-) SetToBag({r})
    /\ fetchOut' = Reported(<<>>)
    /\ UNCHANGED <<aloneVars, poll, deleteVars, subscriptions, xrayStatus,
                   isLoading, runVars, itemCalls, connectCalls, statusReqs,
                   dataReqs, stopReqs, tunnel>>

\* variant: a failed poll falls back to "stopped" and tells the user
FetchStatusFail_Resets ==
    /\ \/ /\ statusReqs > 0
          /\ statusReqs' = statusReqs - 1
          /\ UNCHANGED statusResps
       \/ /\ \E r \in RespsFor("status") :
                statusResps' = statusResps (-) SetToBag({r})
          /\ UNCHANGED statusReqs
    /\ currentStatus' = StatusStopped
    /\ fetchOut' = Reported(<<ConsoleError("FailedToFetchStatus")>>)
    /\ UNCHANGED <<aloneVars, poll, deleteVars, subscriptions, xrayStatus,
                   isLoading, runVars, itemCalls, connectCalls, dataReqs,
                   stopReqs, tunnel>>

\* getServerStatus rejected: console.error only
FetchStatusFail ==
    /\ \/ /\ statusReqs > 0
          /\ statusReqs' = statusReqs - 1
          /\ UNCHANGED statusResps
       \/ /\ \E r \in RespsFor("status") :
                statusResps' = statusResps (-) SetToBag({r})
          /\ UNCHANGED statusReqs
    /\ fetchOut' = Reported(<<ConsoleError("FailedToFetchStatus")>>)
    /\ UNCHANGED <<aloneVars, poll, deleteVars, appVars, runVars, itemCalls,
                   connectCalls, dataReqs, stopReqs, tunnel>>

(***************************************************************************)
(* App.handleStopServer                                                    *)
(***************************************************************************)
\* the power button with isConnected: onClick = onStop
HandleStopServer ==
    /\ PowerButtonEnabled
    /\ IsConnected
    /\ InFlight < MaxInFlight
    /\ stopReqs' = stopReqs + 1
    /\ UNCHANGED <<aloneVars, poll, deleteVars, fetchOut, appVars, runVars, itemCalls, connectCalls, statusReqs, statusResps,
                   dataReqs, tunnel>>

\* stopServer resolved: toast, fetchStatus()
StopServerOk ==
    /\ stopReqs > 0
    /\ tunnel' = BackendStop
    /\ stopReqs' = stopReqs - 1
    /\ statusReqs' = statusReqs + 1
    /\ UNCHANGED <<aloneVars, poll, deleteVars, fetchOut, appVars, runVars, itemCalls, connectCalls, dataReqs,
                   statusResps>>

\* stopServer rejected: toast only
StopServerFail ==
    /\ stopReqs > 0
    /\ stopReqs' = stopReqs - 1
    /\ UNCHANGED <<aloneVars, poll, deleteVars, fetchOut, appVars, runVars, itemCalls, connectCalls, statusReqs, statusResps,
                   dataReqs, tunnel>>

(***************************************************************************)
(* App.handleAutoConnect                                                   *)
(***************************************************************************)
\* variant: the list walked from its end
RunStep_Reversed(subs, i, out) ==
    IF i < Len(subs)
    THEN [run |-> [pc |-> "testing", subs |-> subs, i |-> i + 1,
                   bestServer |-> NoResult],
          out |-> out \o <<Toast("info", "Testing", subs[Len(subs) - i],
                                 NoServer),
                           Api("url-test", subs[Len(subs) - i], NoServer)>>,
          isConnecting |-> TRUE]
    ELSE [run |-> IdleRun,
          out |-> Append(out, Toast("error", "NoResponsive", "-", NoServer)),
          isConnecting |-> FALSE]

\* variant: setIsConnecting(false) is left out after the loop
RunStep_StaysConnecting(subs, i, out) ==
    IF i < Len(subs)
    THEN [run |-> [pc |-> "testing", subs |-> subs, i |-> i + 1,
                   bestServer |-> NoResult],
          out |-> out \o <<Toast("info", "Testing", subs[i + 1], NoServer),
                           Api("url-test", subs[i + 1], NoServer)>>,
          isConnecting |-> TRUE]
    ELSE [run |-> IdleRun,
          out |-> Append(out, Toast("error", "NoResponsive", "-", NoServer)),
          isConnecting |-> TRUE]

\* the for loop from the end of iteration i, after the effects out: the next
\* iteration up to its await, or the code after the loop when the list is
\* exhausted (connected is false on this path)
RunStep(subs, i, out) ==
    IF i < Len(subs)
    THEN [run |-> [pc |-> "testing", subs |-> subs, i |-> i + 1,
                   bestServer |-> NoResult],
          out |-> out \o <<Toast("info", "Testing", subs[i + 1], NoServer),
                           Api("url-test", subs[i + 1], NoServer)>>,
          isConnecting |-> TRUE]
    ELSE [run |-> IdleRun,
          out |-> Append(out, Toast("error", "NoResponsive", "-", NoServer)),
          isConnecting |-> FALSE]

\* variant: no check for an empty list, the loop is entered at once
HandleAutoConnect_NoEmptyCheck ==
    /\ PowerButtonEnabled
    /\ ~IsConnected
    /\ InFlight < MaxInFlight
    /\ LET n == RunStep(subscriptions, 0,
                        <<Toast("info", "Finding", "-", NoServer)>>)
       IN /\ run' = n.run
          /\ runOut' = n.out
          /\ isConnecting' = n.isConnecting
    /\ UNCHANGED <<aloneVars, poll, deleteVars, fetchOut, appVars, itemCalls,
                   connectCalls, statusReqs, statusResps, dataReqs, stopReqs,
                   tunnel>>

\* the power button without isConnected: onClick = onConnect
HandleAutoConnect ==
    /\ PowerButtonEnabled
    /\ ~IsConnected
    /\ IF Len(subscriptions) = 0
       THEN /\ runOut' = <<Toast("info", "AddSubscriptionFirst", "-", NoServer)>>
            /\ UNCHANGED <<run, isConnecting>>
       ELSE /\ InFlight < MaxInFlight
            /\ LET n == RunStep(subscriptions, 0,
                                <<Toast("info", "Finding", "-", NoServer)>>)
               IN /\ run' = n.run
                  /\ runOut' = n.out
                  /\ isConnecting' = n.isConnecting
    /\ UNCHANGED <<aloneVars, poll, deleteVars, fetchOut, appVars, itemCalls, connectCalls, statusReqs, statusResps, dataReqs,
                   stopReqs, tunnel>>

\* variant: the Start names the first subscription of the list
AutoConnectTested_FirstSub ==
    /\ run.pc = "testing"
    /\ \E results \in SeqsUpTo(ServerTestResult(ServersOf(run.subs[run.i]),
                                                 -1, MaxPing), MaxResults) :
          LET successfulTests == AppSuccessfulTests(results)
              n == RunStep(run.subs, run.i, <<Branch("none")>>)
          IN IF Len(successfulTests) > 0
             THEN /\ run' = [run EXCEPT !.pc = "starting",
                                        !.bestServer = successfulTests[1]]
                  /\ runOut' = <<Branch("found"),
                                 Api("start", run.subs[1],
                                     successfulTests[1].server_id)>>
                  /\ UNCHANGED isConnecting
             ELSE /\ run' = n.run
                  /\ runOut' = n.out
                  /\ isConnecting' = n.isConnecting
    /\ UNCHANGED <<aloneVars, poll, deleteVars, fetchOut, appVars, itemCalls, connectCalls, statusReqs,
                   statusResps, dataReqs, stopReqs, tunnel>>

\* testSubscriptionServers resolved with results
AutoConnectTested ==
    /\ run.pc = "testing"
    /\ \E results \in SeqsUpTo(ServerTestResult(ServersOf(run.subs[run.i]),
                                                 -1, MaxPing), MaxResults) :
          LET successfulTests == AppSuccessfulTests(results)
              n == RunStep(run.subs, run.i, <<Branch("none")>>)
          IN IF Len(successfulTests) > 0
             THEN /\ run' = [run EXCEPT !.pc = "starting",
                                        !.bestServer = successfulTests[1]]
                  /\ runOut' = <<Branch("found"),
                                 Api("start", run.subs[run.i],
                                     successfulTests[1].server_id)>>
                  /\ UNCHANGED isConnecting
             ELSE /\ run' = n.run
                  /\ runOut' = n.out
                  /\ isConnecting' = n.isConnecting
    /\ UNCHANGED <<aloneVars, poll, deleteVars, fetchOut, appVars, itemCalls, connectCalls, statusReqs, statusResps, dataReqs,
                   stopReqs, tunnel>>

\* variant: no catch, the rejection leaves the handler
AutoConnectTestFailed_Escapes ==
    /\ run.pc = "testing"
    /\ run' = IdleRun
    /\ runOut' = <<Branch("catch")>>
    /\ UNCHANGED <<aloneVars, poll, deleteVars, fetchOut, appVars, isConnecting, itemCalls, connectCalls,
                   statusReqs, statusResps, dataReqs, stopReqs, tunnel>>

\* testSubscriptionServers rejected: catch, next iteration
AutoConnectTestFailed ==
    /\ run.pc = "testing"
    /\ LET n == RunStep(run.subs, run.i,
                        <<Branch("catch"),
                          SkipToast(run.subs[run.i], "url-test")>>)
       IN /\ run' = n.run
          /\ runOut' = n.out
          /\ isConnecting' = n.isConnecting
    /\ UNCHANGED <<aloneVars, poll, deleteVars, fetchOut, appVars, itemCalls, connectCalls, statusReqs, statusResps, dataReqs,
                   stopReqs, tunnel>>

\* variant: no break after the Start, the loop goes on
AutoConnectStarted_NoBreak ==
    /\ run.pc = "starting"
    /\ tunnel' = BackendStartOk(run.bestServer.server_id)
    /\ statusReqs' = statusReqs + 1
    /\ LET n == RunStep(run.subs, run.i,
                        <<Toast("success", "Connected", run.subs[run.i],
                                run.bestServer.server_id)>>)
       IN /\ run' = n.run
          /\ runOut' = n.out
          /\ isConnecting' = n.isConnecting
    /\ UNCHANGED <<aloneVars, poll, deleteVars, fetchOut, appVars, itemCalls, connectCalls, dataReqs,
                   statusResps, stopReqs>>

\* variant: connected is never set, the summary follows the success report
AutoConnectStarted_NoFlag ==
    /\ run.pc = "starting"
    /\ tunnel' = BackendStartOk(run.bestServer.server_id)
    /\ runOut' = <<Toast("success", "Connected", run.subs[run.i],
                         run.bestServer.server_id),
                   Toast("error", "NoResponsive", "-", NoServer)>>
    /\ statusReqs' = statusReqs + 1
    /\ run' = IdleRun
    /\ isConnecting' = FALSE
    /\ UNCHANGED <<aloneVars, poll, deleteVars, fetchOut, appVars, itemCalls, connectCalls, dataReqs,
                   statusResps, stopReqs>>

\* startServer resolved: toast, fetchStatus(), connected = true, break,
\* setIsConnecting(false)
AutoConnectStarted ==
    /\ run.pc = "starting"
    /\ tunnel' = BackendStartOk(run.bestServer.server_id)
    /\ runOut' = <<Toast("success", "Connected", run.subs[run.i],
                         run.bestServer.server_id)>>
    /\ statusReqs' = statusReqs + 1
    /\ run' = IdleRun
    /\ isConnecting' = FALSE
    /\ UNCHANGED <<aloneVars, poll, deleteVars, fetchOut, appVars, itemCalls, connectCalls, dataReqs,
                   statusResps, stopReqs>>

\* variant: the rejection is reported and the loop is left
AutoConnectStartFailed_Stops ==
    /\ run.pc = "starting"
    /\ tunnel' \in BackendStartFail
    /\ run' = IdleRun
    /\ runOut' = <<Branch("catch"), SkipToast(run.subs[run.i], "start")>>
    /\ isConnecting' = FALSE
    /\ UNCHANGED <<aloneVars, poll, deleteVars, fetchOut, appVars, itemCalls, connectCalls, statusReqs,
                   statusResps, dataReqs, stopReqs>>

\* startServer rejected: catch, next iteration
AutoConnectStartFailed ==
    /\ run.pc = "starting"
    /\ tunnel' \in BackendStartFail
    /\ LET n == RunStep(run.subs, run.i,
                        <<Branch("catch"),
                          SkipToast(run.subs[run.i], "start")>>)
       IN /\ run' = n.run
          /\ runOut' = n.out
          /\ isConnecting' = n.isConnecting
    /\ UNCHANGED <<aloneVars, poll, deleteVars, fetchOut, appVars, itemCalls, connectCalls, statusReqs, statusResps, dataReqs,
                   stopReqs>>

(***************************************************************************)
(* SubscriptionItem.handleAutoConnect and handleTestServers                *)
(***************************************************************************)
\* the lightning button; servers is null or not as the item was expanded
\* before or not, which is not tracked: both cases are taken
ItemHandleAutoConnect ==
    /\ InFlight < MaxInFlight
    /\ \E s \in Subs, pc \in {"servers", "testing"} :
          /\ ItemShown(s)
          /\ ~(IsAutoConnecting(s) \/ IsTesting(s))
          /\ itemCalls' = itemCalls (+)
                 SetToBag({ItemCall("auto", s, pc, NoResult, TRUE)})
    /\ UNCHANGED <<aloneVars, poll, deleteVars, fetchOut, appVars, runVars, connectCalls, statusReqs, statusResps, dataReqs,
                   stopReqs, tunnel>>

\* fetchServers returned (it catches its own errors): the url-test is sent
ItemServersFetched ==
    /\ \E c \in BagToSet(itemCalls) :
          /\ c.pc = "servers"
          /\ itemCalls' = (itemCalls (-) SetToBag({c})) (+)
                 SetToBag({[c EXCEPT !.pc = "testing"]})
    /\ UNCHANGED <<aloneVars, poll, deleteVars, fetchOut, appVars, runVars, connectCalls, statusReqs, statusResps, dataReqs,
                   stopReqs, tunnel>>

\* testSubscriptionServers resolved in handleAutoConnect
ItemAutoConnectTested ==
    /\ \E c \in BagToSet(itemCalls) :
          /\ c.handler = "auto"
          /\ c.pc = "testing"
          /\ \E results \in SeqsUpTo(ServerTestResult(ServersOf(c.sub), -1,
                                                       MaxPing), MaxResults) :
                LET successfulTests == ItemSuccessfulTests(results)
                IN itemCalls' =
                     IF Len(successfulTests) = 0
                     THEN itemCalls (-) SetToBag({c})
                     ELSE (itemCalls (-) SetToBag({c})) (+)
                          SetToBag({[c EXCEPT !.pc = "starting",
                                       !.bestServer = successfulTests[1]]})
    /\ UNCHANGED <<aloneVars, poll, deleteVars, fetchOut, appVars, runVars, connectCalls, statusReqs, statusResps, dataReqs,
                   stopReqs, tunnel>>

\* testSubscriptionServers rejected, in either handler: catch, finally
ItemTestFailed ==
    /\ \E c \in BagToSet(itemCalls) :
          /\ c.pc = "testing"
          /\ itemCalls' = itemCalls (-) SetToBag({c})
    /\ UNCHANGED <<aloneVars, poll, deleteVars, fetchOut, appVars, runVars, connectCalls, statusReqs, statusResps, dataReqs,
                   stopReqs, tunnel>>

\* startServer resolved: toast, onConnect() which is App.fetchStatus, finally
ItemAutoConnectStarted ==
    /\ \E c \in BagToSet(itemCalls) :
          /\ c.pc = "starting"
          /\ tunnel' = BackendStartOk(c.bestServer.server_id)
          /\ itemCalls' = itemCalls (-) SetToBag({c})
    /\ statusReqs' = statusReqs + 1
    /\ UNCHANGED <<aloneVars, poll, deleteVars, fetchOut, appVars, runVars, connectCalls, dataReqs,
                   statusResps, stopReqs>>

\* startServer rejected: catch, finally
ItemAutoConnectStartFailed ==
    /\ \E c \in BagToSet(itemCalls) :
          /\ c.pc = "starting"
          /\ itemCalls' = itemCalls (-) SetToBag({c})
    /\ tunnel' \in BackendStartFail
    /\ UNCHANGED <<aloneVars, poll, deleteVars, fetchOut, appVars, runVars, connectCalls, statusReqs, statusResps, dataReqs,
                   stopReqs>>

\* the ping button
ItemHandleTestServers ==
    /\ InFlight < MaxInFlight
    /\ \E s \in Subs :
          /\ ItemShown(s)
          /\ ~(IsTesting(s) \/ IsAutoConnecting(s))
          /\ itemCalls' = itemCalls (+)
                 SetToBag({ItemCall("test", s, "testing", NoResult, TRUE)})
    /\ UNCHANGED <<aloneVars, poll, deleteVars, fetchOut, appVars, runVars, connectCalls, statusReqs, statusResps, dataReqs,
                   stopReqs, tunnel>>

\* variant: the handler goes on as handleAutoConnect does and starts a server
\* of the subscription
ItemTested_Starts ==
    /\ \E c \in BagToSet(itemCalls) :
          /\ c.handler = "test"
          /\ c.pc = "testing"
          /\ itemCalls' = itemCalls (-) SetToBag({c})
          /\ tunnel' \in {tunnel} \cup
                          {BackendStartOk(id) : id \in ServersOf(c.sub)}
    /\ UNCHANGED <<aloneVars, poll, deleteVars, fetchOut, appVars, runVars, connectCalls, statusReqs,
                   statusResps, dataReqs, stopReqs>>

\* testSubscriptionServers resolved in handleTestServers: results shown
ItemTested ==
    /\ \E c \in BagToSet(itemCalls) :
          /\ c.handler = "test"
          /\ c.pc = "testing"
          /\ itemCalls' = itemCalls (-) SetToBag({c})
    /\ UNCHANGED <<aloneVars, poll, deleteVars, fetchOut, appVars, runVars, connectCalls, statusReqs, statusResps, dataReqs,
                   stopReqs, tunnel>>

(***************************************************************************)
(* ServerItem.handleConnect                                                *)
(***************************************************************************)
\* the Connect button of a server row of an expanded item
HandleConnect ==
    /\ InFlight < MaxInFlight
    /\ \E s \in Subs, id \in ServerIds :
          /\ ItemShown(s)
          /\ id \in ServersOf(s)
          /\ ~(ServerIsConnected(id) \/ ServerIsConnecting(id))
          /\ connectCalls' = connectCalls (+)
                 SetToBag({ConnectCall(id, TRUE)})
    /\ UNCHANGED <<aloneVars, poll, deleteVars, fetchOut, appVars, runVars, itemCalls, statusReqs, statusResps, dataReqs,
                   stopReqs, tunnel>>

\* startServer resolved: toast, onConnect() which is App.fetchStatus, finally
ConnectStarted ==
    /\ \E c \in BagToSet(connectCalls) :
          /\ tunnel' = BackendStartOk(c.server_id)
          /\ connectCalls' = connectCalls (-) SetToBag({c})
    /\ statusReqs' = statusReqs + 1
    /\ UNCHANGED <<aloneVars, poll, deleteVars, fetchOut, appVars, runVars, itemCalls, dataReqs,
                   statusResps, stopReqs>>

\* startServer rejected: catch, finally
ConnectStartFailed ==
    /\ \E c \in BagToSet(connectCalls) :
          connectCalls' = connectCalls (-) SetToBag({c})
    /\ tunnel' \in BackendStartFail
    /\ UNCHANGED <<aloneVars, poll, deleteVars, fetchOut, appVars, runVars, itemCalls, statusReqs, statusResps, dataReqs,
                   stopReqs>>

Next ==
    \/ FetchData
    \/ FetchDataOk
    \/ FetchDataFail
    \/ PollStatus
    \/ FetchStatusOk
    \/ FetchStatusFail
    \/ HandleStopServer
    \/ StopServerOk
    \/ StopServerFail
    \/ HandleAutoConnect
    \/ AutoConnectTested
    \/ AutoConnectTestFailed
    \/ AutoConnectStarted
    \/ AutoConnectStartFailed
    \/ ItemHandleAutoConnect
    \/ ItemServersFetched
    \/ ItemAutoConnectTested
    \/ ItemTestFailed
    \/ ItemAutoConnectStarted
    \/ ItemAutoConnectStartFailed
    \/ ItemHandleTestServers
    \/ ItemTested
    \/ HandleConnect
    \/ ConnectStarted
    \/ ConnectStartFailed
    \/ BackendStatus
    \/ BackendCrash

Spec == Init /\ [][Next]_vars

(***************************************************************************)
(* Progress: every request the user interface sends is answered or fails,  *)
(* and the status interval keeps firing                                    *)
(***************************************************************************)
\* a request of handleAutoConnect completes
RunCompletes ==
    \/ AutoConnectTested
    \/ AutoConnectTestFailed
    \/ AutoConnectStarted
    \/ AutoConnectStartFailed

\* the handleAutoConnect call of the mounted item of subscription s
MountedAuto(s) ==
    {c \in BagToSet(itemCalls) : c.handler = "auto" /\ c.sub = s /\ c.mounted}

\* a request of that call completes
ItemCompletes(s) ==
    /\ \/ ItemServersFetched
       \/ ItemAutoConnectTested
       \/ ItemTestFailed
       \/ ItemAutoConnectStarted
       \/ ItemAutoConnectStartFailed
    /\ MountedAuto(s)' # MountedAuto(s)

\* the global and the per-subscription auto-connect after the first load,
\* with the status refreshes they ask for
RunNext ==
    \/ BackendStatus
    \/ FetchDataOk
    \/ FetchDataFail
    \/ FetchStatusOk
    \/ FetchStatusFail
    \/ HandleAutoConnect
    \/ AutoConnectTested
    \/ AutoConnectTestFailed
    \/ AutoConnectStarted
    \/ AutoConnectStartFailed
    \/ ItemHandleAutoConnect
    \/ ItemServersFetched
    \/ ItemAutoConnectTested
    \/ ItemTestFailed
    \/ ItemAutoConnectStarted
    \/ ItemAutoConnectStartFailed

\* every request of an auto-connect completes, with success or with error
RunFairness ==
    /\ WF_vars(RunCompletes)
    /\ \A s \in Subs : WF_vars(ItemCompletes(s))

RunLiveSpec == Init /\ [][RunNext]_vars /\ RunFairness

\* a getServerStatus request of fetchStatus reaches the backend
StatusServed == BackendStatus /\ statusReqs' < statusReqs

\* a Start or Stop request completes
TransitionCompletes ==
    \/ StopServerOk
    \/ StopServerFail
    \/ ConnectStarted
    \/ ConnectStartFailed

\* the status display after the first load: the interval, the Connect
\* buttons of the server rows, the Stop of the power button, the backend
StatusNext ==
    \/ BackendStatus
    \/ BackendCrash
    \/ FetchDataOk
    \/ FetchDataFail
    \/ PollStatus
    \/ FetchStatusOk
    \/ FetchStatusFail
    \/ HandleConnect
    \/ ConnectStarted
    \/ ConnectStartFailed
    \/ HandleStopServer
    \/ StopServerOk
    \/ StopServerFail

\* the interval keeps firing, status requests are served and eventually
\* succeed, Start and Stop requests complete
StatusFairness ==
    /\ SF_vars(PollStatus)
    /\ SF_vars(StatusServed)
    /\ SF_vars(FetchStatusOk)
    /\ WF_vars(FetchDataOk \/ FetchDataFail \/ BackendStatus)
    /\ WF_vars(TransitionCompletes)

StatusLiveSpec == Init /\ [][StatusNext]_vars /\ StatusFairness

(***************************************************************************)
(* The status poll against the clock: the interval of the mount effect,    *)
(* the loads and the status requests, with their reports recorded          *)
(***************************************************************************)
\* a second passes; the interval fires before time moves past its due time
Tick ==
    /\ poll.timed
    /\ poll.clock < MaxClock
    /\ poll.interval = "set" => poll.clock < poll.due
    /\ poll' = [poll EXCEPT !.clock = @ + 1]
    /\ UNCHANGED <<aloneVars, appState>>

\* the App unmounts: the cleanup of the mount effect, clearInterval
UnmountApp ==
    /\ poll.interval = "set"
    /\ poll' = [poll EXCEPT !.interval = "cleared"]
    /\ UNCHANGED <<aloneVars, appState>>

PollInit ==
    /\ InitApp
    /\ sel = NoSelect
    /\ logModal = NoLogModal
    /\ http = NoHttp
    /\ poll = [NoPoll EXCEPT !.timed = TRUE]
    /\ fetchOut = [NoFetchOut EXCEPT !.recorded = TRUE]

PollNext ==
    \/ Tick
    \/ PollStatus
    \/ UnmountApp
    \/ BackendStatus
    \/ FetchDataOk
    \/ FetchDataFail
    \/ FetchStatusOk
    \/ FetchStatusFail
    \/ HandleConnect
    \/ ConnectStarted
    \/ ConnectStartFailed

PollSpec == PollInit /\ [][PollNext]_vars

(***************************************************************************)
(* services/api.ts handleResponse alone: every Response of a small set is  *)
(* handed to it                                                            *)
(***************************************************************************)
\* JSON values as JavaScript sees them: t is the type, s the text of a
\* string, a the elements of an array (objects, given by their msg member)
JUndefined == [t |-> "undefined", s |-> "", a |-> <<>>]

JNull == [t |-> "null", s |-> "", a |-> <<>>]

JString(s) == [t |-> "string", s |-> s, a |-> <<>>]

JArray(a) == [t |-> "array", s |-> "", a |-> a]

\* the first character of a non-empty string s
JChar(s) == [t |-> "char", s |-> s, a |-> <<>>]

\* a parsed body: "null", "object" with its detail member (JUndefined when
\* it has none), or "text" for a body that is no JSON
JsonObject(detail) == [t |-> "object", detail |-> detail]

JsonNull == [t |-> "null", detail |-> JUndefined]

NotJson == [t |-> "text", detail |-> JUndefined]

\* the detail members tried: none, null, empty and non-empty text (FastAPI's
\* HTTPException), and lists of validation errors with and without msg
Details ==
    {JUndefined, JNull, JString(""), JString("Server not found"),
     JArray(<<>>),
     JArray(<<[msg |-> JString("field required")]>>),
     JArray(<<[msg |-> JString("field required")],
              [msg |-> JString("invalid url")]>>),
     JArray(<<[msg |-> JUndefined]>>),
     JArray(<<[msg |-> JString("")],
              [msg |-> JString("invalid url")]>>)}

Bodies == {NotJson, JsonNull} \cup {JsonObject(d) : d \in Details}

StatusText(status) ==
    CASE status = "200" -> "OK"
      [] status = "404" -> "Not Found"
      [] status = "409" -> "Conflict"
      [] status = "422" -> "Unprocessable Entity"
      [] status = "500" -> "Internal Server Error"

\* Response.ok: the status is in the range 200-299
ResponseOk(status) == status = "200"

Responses ==
    {[status |-> st, body |-> b] :
        st \in {"200", "404", "409", "422", "500"}, b \in Bodies}

\* JavaScript truthiness
Truthy(v) ==
    CASE v.t \in {"undefined", "null"} -> FALSE
      [] v.t \in {"string", "char"} -> v.s # ""
      [] OTHER -> TRUE

\* a || b
OrElse(a, b) == IF Truthy(a) THEN a ELSE b

\* v?.[0]
OptionalFirst(v) ==
    CASE v.t \in {"undefined", "null"} -> JUndefined
      [] v.t = "string" -> IF v.s = "" THEN JUndefined ELSE JChar(v.s)
      [] v.t = "array" -> IF Len(v.a) = 0 THEN JUndefined
                          ELSE [t |-> "item", s |-> "", a |-> <<v.a[1]>>]
      [] OTHER -> JUndefined

\* x?.msg
OptionalMsg(x) == IF x.t = "item" THEN x.a[1].msg ELSE JUndefined

\* the message new Error(v) gets: String(v); an array is its elements'
\* strings joined by commas and an object element is "[object Object]"
RECURSIVE JoinObjects(_)
JoinObjects(a) ==
    IF Len(a) = 0 THEN ""
    ELSE IF Len(a) = 1 THEN "[object Object]"
    ELSE "[object Object]," \o JoinObjects(Tail(a))

ErrorMessage(v) == IF v.t = "array" THEN JoinObjects(v.a) ELSE v.s

Thrown(name, message) ==
    [kind |-> "throw", name |-> name, message |-> message, value |-> NotJson]

Returned(value) ==
    [kind |-> "return", name |-> "-", message |-> "-", value |-> value]

\* variant: the body is parsed and returned whatever the status
HandleResponseResult_NoOkCheck(response) ==
    IF response.body.t = "text"
    THEN Thrown("SyntaxError", "Unexpected token")
    ELSE Returned(response.body)

\* the promise handleResponse(response) settles to
HandleResponseResult(response) ==
    IF ~ResponseOk(response.status)
    THEN IF response.body.t = "text"
         THEN Thrown("Error", "HTTP error! status: " \o response.status
                              \o " - " \o StatusText(response.status))
         ELSE IF response.body.t = "null"
         THEN Thrown("TypeError", "Cannot read properties of null")
         ELSE LET detail == response.body.detail
                  errorMessage ==
                      OrElse(OrElse(OptionalMsg(OptionalFirst(detail)), detail),
                             JString("An unknown API error occurred"))
              IN Thrown("Error", ErrorMessage(errorMessage))
    ELSE IF response.body.t = "text"
         THEN Thrown("SyntaxError", "Unexpected token")
         ELSE Returned(response.body)

HttpInit ==
    /\ InitApp
    /\ sel = NoSelect
    /\ logModal = NoLogModal
    /\ poll = NoPoll
    /\ fetchOut = NoFetchOut
    /\ http \in {[response |-> <<r>>, outcome |-> <<>>] : r \in Responses}

\* an api function hands the Response of its fetch to handleResponse
HandleResponse ==
    /\ http.response # <<>>
    /\ http.outcome = <<>>
    /\ http' = [http EXCEPT
                   !.outcome = <<HandleResponseResult(http.response[1])>>]
    /\ UNCHANGED <<sel, logModal, poll, appState>>

HttpNext == HandleResponse

HttpSpec == HttpInit /\ [][HttpNext]_vars

(***************************************************************************)
(* SubscriptionItem: the delete button, ConfirmDeleteModal and              *)
(* handleConfirmDelete                                                     *)
(***************************************************************************)
\* handleDeleteClick: the trash button of a listed item
HandleDeleteClick ==
    /\ \E s \in Subs :
          /\ ItemShown(s)
          /\ ~deleteState[s].isDeleteModalOpen
          /\ deleteState' =
                 [deleteState EXCEPT ![s].isDeleteModalOpen = TRUE]
    /\ UNCHANGED <<aloneVars, poll, fetchOut, appVars, runVars, itemCalls,
                   connectCalls, statusReqs, statusResps, dataReqs, stopReqs,
                   tunnel, deleteCalls, deleteOut>>

\* onClose of the ConfirmDeleteModal: its Cancel button (disabled while
\* isDeleting) or the close button, the backdrop and Escape of Modal
CloseDeleteModal ==
    /\ \E s \in Subs :
          /\ ItemShown(s)
          /\ deleteState[s].isDeleteModalOpen
          /\ deleteState' =
                 [deleteState EXCEPT ![s].isDeleteModalOpen = FALSE]
    /\ UNCHANGED <<aloneVars, poll, fetchOut, appVars, runVars, itemCalls,
                   connectCalls, statusReqs, statusResps, dataReqs, stopReqs,
                   tunnel, deleteCalls, deleteOut>>

\* the Delete button of the modal, up to the await
HandleConfirmDelete ==
    /\ InFlight < MaxInFlight
    /\ \E s \in Subs :
          /\ ItemShown(s)
          /\ deleteState[s].isDeleteModalOpen
          /\ ~deleteState[s].isDeleting
          /\ deleteState' = [deleteState EXCEPT ![s].isDeleting = TRUE]
          /\ deleteCalls' = deleteCalls (+) SetToBag({DeleteCall(s, TRUE)})
    /\ UNCHANGED <<aloneVars, poll, fetchOut, appVars, runVars, itemCalls,
                   connectCalls, statusReqs, statusResps, dataReqs, stopReqs,
                   tunnel, deleteOut>>

\* deleteSubscription resolved: toast, refreshList() which is App.fetchData
\* up to its await
DeleteOk ==
    /\ \E c \in BagToSet(deleteCalls) :
          /\ deleteCalls' = Unmounted(deleteCalls (-) SetToBag({c}))
          /\ deleteOut' = <<Toast("success", "SubscriptionDeleted", c.sub,
                                  NoServer),
                            Api("fetchData", "-", NoServer)>>
    /\ isLoading' = TRUE
    /\ dataReqs' = dataReqs + 1
    /\ itemCalls' = Unmounted(itemCalls)
    /\ connectCalls' = Unmounted(connectCalls)
    /\ deleteState' = NoDeleteState
    /\ UNCHANGED <<aloneVars, poll, fetchOut, subscriptions, currentStatus,
                   xrayStatus, runVars, statusReqs, statusResps, stopReqs,
                   tunnel>>

\* variant: the catch block without setIsDeleting(false)
DeleteFail_StaysDeleting ==
    /\ \E c \in BagToSet(deleteCalls) :
          /\ deleteCalls' = deleteCalls (-) SetToBag({c})
          /\ deleteOut' = <<Toast("error", "FailedToDelete", c.sub, NoServer)>>
    /\ UNCHANGED <<aloneVars, poll, fetchOut, appVars, runVars, itemCalls,
                   connectCalls, statusReqs, statusResps, dataReqs, stopReqs,
                   tunnel, deleteState>>

\* deleteSubscription rejected: toast, setIsDeleting(false), which an
\* unmounted instance ignores
DeleteFail ==
    /\ \E c \in BagToSet(deleteCalls) :
          /\ deleteCalls' = deleteCalls (-) SetToBag({c})
          /\ deleteOut' = <<Toast("error", "FailedToDelete", c.sub, NoServer)>>
          /\ deleteState' = IF c.mounted
                            THEN [deleteState EXCEPT ![c.sub].isDeleting = FALSE]
                            ELSE deleteState
    /\ UNCHANGED <<aloneVars, poll, fetchOut, appVars, runVars, itemCalls,
                   connectCalls, statusReqs, statusResps, dataReqs, stopReqs,
                   tunnel>>

DeleteNext ==
    \/ HandleDeleteClick
    \/ CloseDeleteModal
    \/ HandleConfirmDelete
    \/ DeleteOk
    \/ DeleteFail
    \/ FetchData
    \/ FetchDataOk
    \/ FetchDataFail
    \/ BackendStatus

DeleteSpec == Init /\ [][DeleteNext]_vars

(***************************************************************************)
(* The loads and the status requests with their reports recorded           *)
(***************************************************************************)
LoadInit ==
    /\ InitApp
    /\ sel = NoSelect
    /\ logModal = NoLogModal
    /\ http = NoHttp
    /\ poll = NoPoll
    /\ fetchOut = [NoFetchOut EXCEPT !.recorded = TRUE]

LoadNext ==
    \/ FetchData
    \/ FetchDataOk
    \/ FetchDataFail
    \/ BackendStatus
    \/ BackendCrash
    \/ PollStatus
    \/ FetchStatusOk
    \/ FetchStatusFail
    \/ HandleConnect
    \/ ConnectStarted
    \/ ConnectStartFailed

LoadSpec == LoadInit /\ [][LoadNext]_vars

(***************************************************************************)
(* The ranking selector alone: every result sequence up to MaxSelectLen is *)
(* handed to the selection code of both handlers                           *)
(***************************************************************************)
SelectInputs ==
    SeqsUpTo(ServerTestResult(SelectServers, 0, MaxSelectPing), MaxSelectLen)

\* sel.app and sel.item are <<>> before the handlers' code ran, then
\* <<bestServer>>, or <<NoResult>> when successfulTests is empty; sel.shown
\* is what the server rows display for the results, in the results' order
SelectInit ==
    /\ InitApp
    /\ sel \in {[NoSelect EXCEPT !.results = q] : q \in SelectInputs}
    /\ logModal = NoLogModal
    /\ poll = NoPoll
    /\ fetchOut = NoFetchOut
    /\ http = NoHttp

\* the same response reaches App.handleAutoConnect (lines 119-124) and
\* SubscriptionItem.handleAutoConnect (lines 261-271), whose setTestResults
\* has every ServerItem render the PingResult of its result
Select ==
    /\ sel.app = <<>>
    /\ sel.item = <<>>
    /\ LET appTests == AppSuccessfulTests(sel.results)
           itemTests == ItemSuccessfulTests(sel.results)
       IN sel' = [sel EXCEPT
                     !.app = IF Len(appTests) > 0
                             THEN <<appTests[1]>> ELSE <<NoResult>>,
                     !.item = IF Len(itemTests) = 0
                              THEN <<NoResult>> ELSE <<itemTests[1]>>,
                     !.shown = [k \in 1..Len(sel.results) |->
                                   PingResult(sel.results[k])]]
    /\ UNCHANGED <<logModal, poll, http, appState>>

SelectNext == Select

SelectSpec == SelectInit /\ [][SelectNext]_vars

(***************************************************************************)
(* LogStreamModal: the modal alone, opened and closed from the App header  *)
(***************************************************************************)
\* a message is the sequence of its words; undefined is no sequence
Undefined == "undefined"

MsgConnecting == <<"Connecting", "to", "log", "stream...">>

MsgEstablished == <<"Connection", "established.">>

MsgLost == <<"Connection", "lost.">>

MsgFailed == <<"Failed", "to", "connect">>

\* String.prototype.includes, on words
Includes(message, word) == \E k \in DOMAIN message : message[k] = word

\* the data of a server-sent event: JSON {timestamp?, message} or other text
EventData ==
    [json : BOOLEAN, timestamp : BOOLEAN,
     text : {<<"accepted">>, <<"Connecting", "upstream">>}]

\* handleEvent: the message it hands to addLog
HandleEventMessage(data) ==
    IF data.json /\ data.timestamp THEN <<"[time]">> \o data.text
    ELSE data.text

\* addLog
AddLog(m, message, level) ==
    [m EXCEPT !.logs = Append(@, [id |-> m.logIdCounter, message |-> message,
                                  level |-> level]),
              !.logIdCounter = @ + 1]

\* the header button: setIsLogsModalOpen(true), the modal mounts
\* eventSource.close() on the EventSource of the latest effect: no effect on
\* one that is closed already
EsClose(m) ==
    IF m.es \in {"connecting", "open"}
    THEN [m EXCEPT !.es = "closed", !.live = @ - 1]
    ELSE m

OpenLogs ==
    /\ logModal.phase = "closed"
    /\ logModal' = [NoLogModal EXCEPT !.phase = "open",
                                      !.live = logModal.live]
    /\ UNCHANGED <<sel, poll, http, appState>>

\* variant: the effect returns no cleanup
LogEffect_NoCleanup ==
    /\ logModal.phase = "open"
    /\ logModal.effectFor # <<logModal.isConnected>>
    /\ logModal.sources < MaxSources
    /\ logModal' = [AddLog(logModal, MsgConnecting, "system") EXCEPT
                        !.effectFor = <<logModal.isConnected>>,
                        !.es = "connecting",
                        !.sources = @ + 1,
                        !.live = @ + 1]
    /\ UNCHANGED <<sel, poll, http, appState>>

\* useEffect(..., [isConnected]): after the mount and after each render with a
\* changed isConnected: the previous cleanup closes its EventSource, then
\* addLog and a new EventSource
LogEffect ==
    /\ logModal.phase = "open"
    /\ logModal.effectFor # <<logModal.isConnected>>
    /\ logModal.sources < MaxSources
    /\ logModal' = [AddLog(EsClose(logModal), MsgConnecting, "system") EXCEPT
                        !.effectFor = <<logModal.isConnected>>,
                        !.es = "connecting",
                        !.sources = @ + 1,
                        !.live = @ + 1]
    /\ UNCHANGED <<sel, poll, http, appState>>

\* eventSource.onopen; the filter reads message.includes of every entry and
\* throws on an entry whose message is undefined
EsOpen ==
    /\ logModal.phase = "open"
    /\ logModal.es = "connecting"
    /\ logModal' =
         IF \E k \in DOMAIN logModal.logs :
                logModal.logs[k].message = Undefined
         THEN [NoLogModal EXCEPT !.phase = "crashed",
                                 !.live = EsClose(logModal).live]
         ELSE LET kept(l) == ~Includes(l.message, "Connecting")
                  m == [logModal EXCEPT !.isConnected = TRUE,
                                        !.es = "open",
                                        !.logs = SelectSeq(@, kept)]
              IN AddLog(m, MsgEstablished, "system")
    /\ UNCHANGED <<sel, poll, http, appState>>

\* a log, info or error event of the stream: handleEvent(event, level)
EsMessage ==
    /\ logModal.phase = "open"
    /\ logModal.es = "open"
    /\ Len(logModal.received) < MaxEvents
    /\ \E level \in {"log", "info", "error"}, data \in EventData :
          logModal' =
             [AddLog(logModal, HandleEventMessage(data), level) EXCEPT
                 !.received = Append(@, [id |-> logModal.logIdCounter,
                                         level |-> level])]
    /\ UNCHANGED <<sel, poll, http, appState>>

\* the transport fails: the error Event reaches the 'error' listener
\* (JSON.parse(undefined) throws, the catch logs event.data, undefined) and
\* then onerror, whose isConnected is the one the effect captured
EsError ==
    /\ logModal.phase = "open"
    /\ logModal.es \in {"connecting", "open"}
    /\ LET heard == AddLog(logModal, Undefined, "error")
           told == AddLog(heard,
                          IF logModal.effectFor = <<TRUE>> THEN MsgLost
                          ELSE MsgFailed, "system")
       IN logModal' = EsClose([told EXCEPT !.isConnected = FALSE])
    /\ UNCHANGED <<sel, poll, http, appState>>

\* onClose: setIsLogsModalOpen(false), the cleanup closes the EventSource
CloseLogs ==
    /\ logModal.phase = "open"
    /\ logModal' = [NoLogModal EXCEPT !.live = EsClose(logModal).live]
    /\ UNCHANGED <<sel, poll, http, appState>>

LogInit == Init

LogNext ==
    \/ OpenLogs
    \/ LogEffect
    \/ EsOpen
    \/ EsMessage
    \/ EsError
    \/ CloseLogs

LogSpec == LogInit /\ [][LogNext]_vars

(***************************************************************************)
(* Properties                                                              *)
(***************************************************************************)
\* the entries of a step's record with the given effect and kind
Entries(out, eff, kind) ==
    {k \in DOMAIN out : out[k].eff = eff /\ out[k].kind = kind}

\* a step of the handleAutoConnect call
RunMoved == run' # run \/ runOut' # runOut

\* a result the selector may pick, as the specification words it
Eligible(r) == r.success = TRUE /\ r.ping_null = FALSE /\ r.ping_ms > 0

C2_ProbesInListOrder ==
    [][RunMoved =>
         /\ (run.pc # "idle" /\ run'.pc # "idle") => run'.subs = run.subs
         /\ IF run'.pc = "testing"
            THEN /\ run'.subs = (IF run.pc = "idle" THEN subscriptions
                                 ELSE run.subs)
                 /\ run'.i = (IF run.pc = "idle" THEN 1 ELSE run.i + 1)
                 /\ run'.i \in DOMAIN run'.subs
                 /\ Cardinality(Entries(runOut', "api", "url-test")) = 1
                 /\ \A k \in Entries(runOut', "api", "url-test") :
                       runOut'[k].sub = run'.subs[run'.i]
            ELSE Entries(runOut', "api", "url-test") = {}]_vars

\* the third subscription of the list is being probed, after the
\* subscriptions state has changed under the run
C2_Witness ==
    /\ run.pc = "testing"
    /\ run.i = 3
    /\ subscriptions # run.subs

\* C3: a Start sent by either auto-connect carries a result with
\* success = true and a non-null ping_ms > 0.
C3_StartOnlyEligible ==
    /\ run.pc = "starting" =>
          /\ Eligible(run.bestServer)
          /\ \A k \in Entries(runOut, "api", "start") :
                runOut[k].server_id = run.bestServer.server_id
    /\ \A c \in BagToSet(itemCalls) :
          c.pc = "starting" => Eligible(c.bestServer)

\* both handlers have a Start in flight
C3_Witness ==
    /\ run.pc = "starting"
    /\ \E c \in BagToSet(itemCalls) : c.pc = "starting"

\* the positions of sel.results the selector may pick
EligiblePositions == {k \in DOMAIN sel.results : Eligible(sel.results[k])}

\* C4: the pick has the least ping_ms of the eligible results, and both
\* handlers pick the same result.
C4_PicksMinimum ==
    (sel.app # <<>> /\ sel.item # <<>>) =>
        /\ sel.app = sel.item
        /\ EligiblePositions # {} =>
              /\ \E k \in EligiblePositions : sel.app[1] = sel.results[k]
              /\ \A k \in EligiblePositions :
                    sel.app[1].ping_ms <= sel.results[k].ping_ms

\* [A slow ok, B fast ok, C fail]: B is picked
C4_Witness ==
    /\ sel.results =
         << [server_id |-> "A", success |-> TRUE, ping_null |-> FALSE,
             ping_ms |-> 2],
            [server_id |-> "B", success |-> TRUE, ping_null |-> FALSE,
             ping_ms |-> 1],
            [server_id |-> "C", success |-> FALSE, ping_null |-> TRUE,
             ping_ms |-> 0] >>
    /\ sel.app # <<>>
    /\ sel.item # <<>>
    /\ sel.app[1].server_id = "B"

\* the first position holding the least eligible ping_ms
FirstBest ==
    CHOOSE k \in EligiblePositions :
        \A j \in EligiblePositions :
            \/ sel.results[k].ping_ms < sel.results[j].ping_ms
            \/ (sel.results[k].ping_ms = sel.results[j].ping_ms /\ k <= j)

\* C5: among eligible results sharing the least ping_ms, the one first in
\* the response is picked.
C5_TieFirstSeen ==
    EligiblePositions # {} =>
        /\ sel.app # <<>> => sel.app[1] = sel.results[FirstBest]
        /\ sel.item # <<>> => sel.item[1] = sel.results[FirstBest]

\* three servers tie on the least reading behind a slower one
C5_Witness ==
    /\ Len(sel.results) = 3
    /\ \A k \in DOMAIN sel.results :
          Eligible(sel.results[k]) /\ sel.results[k].ping_ms = 1
    /\ sel.results[1].server_id = "B"
    /\ sel.results[2].server_id = "A"
    /\ sel.results[3].server_id = "C"
    /\ sel.app # <<>> /\ sel.item # <<>>
    /\ sel.app[1].server_id = "B"

\* the run goes on after position i: the next position is probed, or the
\* list is exhausted and the call ends in the ordinary way
RunContinues ==
    IF run.i < Len(run.subs)
    THEN /\ run'.pc = "testing"
         /\ run'.i = run.i + 1
         /\ run'.subs = run.subs
         /\ isConnecting'
    ELSE /\ run'.pc = "idle"
         /\ ~isConnecting'
         /\ Entries(runOut', "toast", "NoResponsive") # {}

\* C6: when the probe of a subscription yields no eligible result or the
\* probe request fails, no Start is sent for it and the run goes on.
C6_SkipWithoutStart ==
    [][(/\ run.pc = "testing"
        /\ RunMoved
        /\ \/ Entries(runOut', "branch", "none") # {}
           \/ Entries(runOut', "branch", "catch") # {})
       => /\ Entries(runOut', "api", "start") = {}
          /\ run'.pc # "starting"
          /\ tunnel' = tunnel
          /\ RunContinues]_vars

\* the run is at the second subscription after the first had no eligible
\* result
C6_Witness ==
    /\ run.pc = "testing"
    /\ run.i = 2
    /\ Entries(runOut, "branch", "none") # {}

\* C7 as claimed: a run that passes over a subscription shows a failure
\* reason for it first.
C7_ReasonForEverySkip ==
    [][(/\ run.pc = "testing"
        /\ RunMoved
        /\ run'.pc # "starting")
       => \E k \in DOMAIN runOut' :
             /\ runOut'[k].eff = "toast"
             /\ runOut'[k].type = "error"
             /\ runOut'[k].sub = run.subs[run.i]]_vars

\* the toasts that end a run
Terminal(out) ==
    Entries(out, "toast", "Connected") \cup
    Entries(out, "toast", "NoResponsive")

\* C8: the step that ends a run reports exactly one outcome, Connected for
\* the server just started or NoResponsive; NoResponsive exactly when the
\* list is exhausted and that step started nothing; no earlier step of the
\* run reports an outcome.
C8_OneTerminalOutcome ==
    [][RunMoved =>
         IF run.pc # "idle" /\ run'.pc = "idle"
         THEN /\ Cardinality(Terminal(runOut')) = 1
              /\ Entries(runOut', "toast", "NoResponsive") # {}
                   <=> /\ run.i = Len(run.subs)
                       /\ ~(run.pc = "starting"
                            /\ Entries(runOut', "branch", "catch") = {})
              /\ \A k \in Entries(runOut', "toast", "Connected") :
                    /\ run.pc = "starting"
                    /\ runOut'[k].server_id = run.bestServer.server_id
                    /\ runOut'[k].sub = run.subs[run.i]
                    /\ tunnel' = StatusRunning(run.bestServer.server_id)
         ELSE Terminal(runOut') = {}]_vars

\* a run has ended with the failure summary after a failed Start
C8_Witness ==
    /\ run.pc = "idle"
    /\ Entries(runOut, "toast", "NoResponsive") # {}
    /\ \E k \in Entries(runOut, "toast", "Skipping") :
          runOut[k].detail = "start"
    /\ tunnel = StatusError

\* the servers whose row shows Connected
ShownConnected == {id \in ServerIds : ServerIsConnected(id)}

\* C9: at most one server is shown connected, it is the server_id of a
\* running status, and none is shown when the status is not running.
C9_OneShownRunning ==
    /\ Cardinality(ShownConnected) <= 1
    /\ \A id \in ShownConnected :
          /\ IsConnected
          /\ currentStatus = StatusRunning(id)
    /\ currentStatus.status \in {"stopped", "error", "null"} =>
          ShownConnected = {} /\ ~IsConnected

\* the view shows S2a after a Start of S2a replaced the running S1a
C9_Witness ==
    /\ tunnel = StatusRunning("S2a")
    /\ ShownConnected = {"S2a"}

\* Start and Stop requests in flight
TransitionsInFlight ==
    stopReqs + BagCardinality(connectCalls)
    + (IF run.pc = "starting" THEN 1 ELSE 0)
    + BagCardinality([c \in {x \in DOMAIN itemCalls : x.pc = "starting"}
                        |-> itemCalls[c]])

\* C10 as claimed: at most one Start or Stop request is in flight.
C10_OneTransitionInFlight == TransitionsInFlight <= 1

\* C11: currentStatus is null or one whole status response: server_id,
\* status and remarks all come from the same snapshot, also when the response
\* was produced or delivered while a Start was in flight.
C11_NoTornStatus ==
    /\ currentStatus # NullStatus => currentStatus \in ServerStatusResponse
    /\ \A r \in BagToSet(statusResps) :
          r.status \in ServerStatusResponse
    /\ currentStatus.status = "running"
          <=> currentStatus.remarks = RemarksOf(currentStatus.server_id)

\* a status read was delivered while the Start of a server row was in
\* flight: the row's own server is shown connected before its Start returned
C11_Witness ==
    \E c \in BagToSet(connectCalls) :
        /\ c.mounted
        /\ ServerIsConnected(c.server_id)
        /\ tunnel = StatusRunning(c.server_id)

\* the subscriptions with a url-test request in flight, from any handler
ProbedSubs ==
    (IF run.pc = "testing" THEN {run.subs[run.i]} ELSE {})
    \cup {c.sub : c \in {x \in BagToSet(itemCalls) : x.pc = "testing"}}

\* C12 as claimed: url-test requests in flight are all for one subscription.
C12_ProbesOneSubscription == Cardinality(ProbedSubs) <= 1

\* a step of the program that ends the run in progress with no further
\* url-test and no Start
RunAborted ==
    /\ Next
    /\ run.pc # "idle"
    /\ run'.pc = "idle"
    /\ Entries(runOut', "api", "url-test") = {}
    /\ Entries(runOut', "api", "start") = {}
    /\ tunnel' = tunnel

\* C13 as claimed: while a run waits for the probe of a subscription that is
\* not the last of its list, the run can be ended there, with no further
\* subscription probed and no Start sent.
C13_AbortableBetweenSubscriptions ==
    (run.pc = "testing" /\ run.i < Len(run.subs)) => ENABLED RunAborted

\* C14 as claimed: once the transport has failed (the EventSource is closed
\* with the modal open), no new connection is opened while the modal stays
\* open.
C14_NoReconnectOnItsOwn ==
    [][(/\ logModal.phase = "open"
        /\ logModal.es = "closed"
        /\ logModal'.phase = "open")
       => logModal'.es = "closed"]_vars

\* the entries of logs that carry the id of a received event, as id and tag
ReceivedShown ==
    LET ids == {logModal.received[k].id : k \in DOMAIN logModal.received}
        ofEvent(l) == l.id \in ids
        shown == SelectSeq(logModal.logs, ofEvent)
    IN [k \in DOMAIN shown |-> [id |-> shown[k].id, level |-> shown[k].level]]

\* C19 as claimed: while the modal is open, the entries of the received
\* events are in logs, one each, tagged with the event type, in arrival order.
C19_EventsKeptInOrder ==
    logModal.phase = "open" => ReceivedShown = logModal.received

\* the calls of one SubscriptionItem handler in progress
CallsOf(handler) ==
    [c \in {x \in DOMAIN itemCalls : x.handler = handler} |-> itemCalls[c]]

\* C15: a step that begins or ends a call of handleTestServers sends no Start
\* and no Stop, leaves the backend tunnel, currentStatus and every status
\* request as they are, and changes the testing flag of one subscription
\* only.
C15_TestLeavesTunnelAlone ==
    [][BagCardinality(CallsOf("test")') # BagCardinality(CallsOf("test"))
       => /\ tunnel' = tunnel
          /\ currentStatus' = currentStatus
          /\ stopReqs' = stopReqs
          /\ connectCalls' = connectCalls
          /\ CallsOf("auto")' = CallsOf("auto")
          /\ <<run, isConnecting>>' = <<run, isConnecting>>
          /\ <<statusReqs, statusResps, dataReqs>>'
                = <<statusReqs, statusResps, dataReqs>>
          /\ \E s \in Subs :
                \A t \in Subs \ {s} :
                    /\ IsTesting(t)' = IsTesting(t)
                    /\ IsAutoConnecting(t)' = IsAutoConnecting(t)]_vars

\* the servers of S2 are being tested while the tunnel runs a server of S1
\* and the view shows it
C15_Witness ==
    /\ IsTesting("S2")
    /\ tunnel = StatusRunning("S1a")
    /\ currentStatus = tunnel

\* C16: the Start of a run names the subscription whose url-test the run was
\* waiting for and the server picked from that response, a server of that
\* subscription; a run sends one Start at a time and, after the Start of a
\* position, moves to a later position of a list without repetitions or
\* ends; the Start of the per-subscription handler is for a server of its own
\* subscription.
C16_StartNamesProbedSubscription ==
    [][/\ (RunMoved /\ Entries(runOut', "api", "start") # {})
          => /\ run.pc = "testing"
             /\ run'.pc = "starting"
             /\ run'.i = run.i
             /\ run'.subs = run.subs
             /\ Cardinality(Entries(runOut', "api", "start")) = 1
             /\ \A k \in Entries(runOut', "api", "start") :
                   /\ runOut'[k].sub = run.subs[run.i]
                   /\ runOut'[k].server_id = run'.bestServer.server_id
                   /\ runOut'[k].server_id \in ServersOf(run.subs[run.i])
       /\ (RunMoved /\ run'.pc = "starting")
          => Entries(runOut', "api", "start") # {}
       /\ (RunMoved /\ run.pc = "starting" /\ run'.pc # "idle")
          => run'.i = run.i + 1
       /\ \A a, b \in DOMAIN run'.subs :
             run'.subs[a] = run'.subs[b] => a = b
       /\ \A c \in BagToSet(itemCalls') :
             c.pc = "starting" =>
                 c.bestServer.server_id \in ServersOf(c.sub)]_vars

\* the run sends the Start of S2a for S2, the second subscription of its list
C16_Witness ==
    /\ run.pc = "starting"
    /\ run.subs = <<"S1", "S2">>
    /\ run.i = 2
    /\ \E k \in Entries(runOut, "api", "start") :
          runOut[k].sub = "S2" /\ runOut[k].server_id = "S2a"

\* C17: when the Start of a run's pick does not succeed (the step that ends
\* the wait reports no Connected), the step takes the catch block, shows
\* Skipping for that subscription with the reason of the failed Start and no
\* success report, asks for no status refresh, and the run goes on: the next
\* subscription is probed, or the list is exhausted and the run ends with
\* NoResponsive.
C17_StartFailureSkips ==
    [][(/\ run.pc = "starting"
        /\ RunMoved
        /\ Entries(runOut', "toast", "Connected") = {})
       => /\ Entries(runOut', "branch", "catch") # {}
          /\ \E k \in Entries(runOut', "toast", "Skipping") :
                /\ runOut'[k].type = "error"
                /\ runOut'[k].sub = run.subs[run.i]
                /\ runOut'[k].detail = "start"
          /\ tunnel' \in {tunnel, StatusError}
          /\ statusReqs' = statusReqs
          /\ RunContinues]_vars

\* S2 is probed after the Start picked from S1 failed and left the
\* supervisor in Error
C17_Witness ==
    /\ run.pc = "testing"
    /\ run.subs = <<"S1", "S2">>
    /\ run.i = 2
    /\ \E k \in Entries(runOut, "toast", "Skipping") :
          runOut[k].sub = "S1" /\ runOut[k].detail = "start"
    /\ tunnel = StatusError

\* C18: isConnecting is true exactly while a run is in progress; each step of
\* a run sends at most one url-test, for the next position of a list without
\* repetitions; provided every request completes, isConnecting returns to
\* false, and so does isAutoConnecting of every subscription item.
C18_RunTerminates ==
    /\ [](isConnecting <=> run.pc # "idle")
    /\ [][RunMoved =>
            /\ Cardinality(Entries(runOut', "api", "url-test")) <= 1
            /\ Entries(runOut', "api", "url-test") # {}
                 => /\ run'.pc = "testing"
                    /\ run'.i = (IF run.pc = "idle" THEN 1 ELSE run.i + 1)
            /\ \A a, b \in DOMAIN run'.subs :
                  run'.subs[a] = run'.subs[b] => a = b]_vars
    /\ isConnecting ~> ~isConnecting
    /\ \A s \in Subs : IsAutoConnecting(s) ~> ~IsAutoConnecting(s)

\* a run over three subscriptions has ended without a connection
C18_Witness ==
    /\ ~isConnecting
    /\ run.pc = "idle"
    /\ Entries(runOut, "toast", "NoResponsive") # {}
    /\ Entries(runOut, "branch", "none") # {}
    /\ Len(subscriptions) = 3
    /\ tunnel = StatusStopped

\* C20: unless the backend's tunnel state keeps changing, from some moment on
\* currentStatus equals it, whatever Start or Stop completed or failed before
\* and in whatever order the status responses arrived.
C20_StatusConverges ==
    \/ []<><<tunnel' # tunnel>>_vars
    \/ <>[](currentStatus = tunnel)

\* the view shows the running server while an older response, taken before
\* the Start, is still on its way
C20_Witness ==
    /\ tunnel.status = "running"
    /\ currentStatus = tunnel
    /\ \E r \in RespsFor("status") : r.status # tunnel

\* the getServerStatus requests of fetchStatus in flight, either direction
StatusInFlight ==
    statusReqs
    + BagCardinality([r \in RespsFor("status") |-> CopiesIn(r, statusResps)])

\* a step in which a fetchStatus call ended in its catch block
PollFailed ==
    /\ fetchOut'.calls = <<ConsoleError("FailedToFetchStatus")>>
    /\ StatusInFlight' < StatusInFlight

\* the interval fired at PollPeriod, 2 * PollPeriod, ... and, while it is
\* set, it has fired for every period the clock has passed
PolledEveryPeriod ==
    /\ \A i \in 1..Len(poll.sent) : poll.sent[i] = i * PollPeriod
    /\ poll.interval = "set" =>
          /\ poll.due = (Len(poll.sent) + 1) * PollPeriod
          /\ poll.clock <= poll.due

\* C21: with the clock observed, fetchStatus is called by the interval
\* every PollPeriod seconds while the App is mounted; a fetchStatus that
\* fails leaves currentStatus as it was, adds no toast and leaves the
\* interval set, so the later polls are made; once the App has unmounted
\* and the interval is cleared, the interval makes no poll any more.
C21_PollEveryPeriodFailureKeepsStatus ==
    /\ []PolledEveryPeriod
    /\ [][/\ PollFailed =>
                /\ currentStatus' = currentStatus
                /\ \A i \in 1..Len(fetchOut'.calls) :
                      fetchOut'.calls[i].eff # "toast"
                /\ runOut' = runOut
                /\ poll' = poll
          /\ poll.interval = "cleared" =>
                /\ poll'.interval = "cleared"
                /\ poll'.sent = poll.sent]_vars

\* the first poll failed while a running server was displayed, which still
\* is, and the second poll has been made on time
C21_Witness ==
    /\ fetchOut.calls = <<ConsoleError("FailedToFetchStatus")>>
    /\ currentStatus.status = "running"
    /\ poll.sent = <<PollPeriod, 2 * PollPeriod>>
    /\ poll.interval = "set"

\* a step in which App.handleAutoConnect was called with subscriptions
RunStarts ==
    /\ \E i \in 1..Len(runOut') :
          runOut'[i] = Toast("info", "Finding", "-", NoServer)
    /\ <<run, runOut>>' # <<run, runOut>>

\* a step in which App.handleStopServer was called
StopIssued == stopReqs' = stopReqs + 1

\* C22: a call of App.handleAutoConnect in progress keeps isConnecting
\* true, and while isConnecting is true the power button can call neither
\* handler, so a run starts only when none is in progress and no Stop is
\* issued during a run; the enabled button calls handleStopServer exactly
\* when the displayed status is running and handleAutoConnect otherwise
\* (stopped, error, or no status yet).
C22_PowerButtonOneRunNoStop ==
    /\ [](run.pc # "idle" => isConnecting)
    /\ [](isConnecting =>
             ~ENABLED HandleAutoConnect /\ ~ENABLED HandleStopServer)
    /\ [](PowerButtonEnabled /\ InFlight < MaxInFlight =>
             /\ IsConnected => ENABLED HandleStopServer
             /\ ~IsConnected => ENABLED HandleAutoConnect)
    /\ [][/\ RunStarts =>
                /\ run.pc = "idle"
                /\ ~isConnecting
                /\ currentStatus.status # "running"
                /\ stopReqs' = stopReqs
          /\ StopIssued =>
                /\ run.pc = "idle"
                /\ ~isConnecting
                /\ currentStatus.status = "running"
                /\ run' = run]_vars

\* a run is probing while a running server is displayed: the button would
\* stop it, and is disabled
C22_Witness ==
    /\ isConnecting
    /\ run.pc = "testing"
    /\ ContentShown
    /\ IsXrayAvailable
    /\ IsConnected

\* the calls of handleTestServers and handleAutoConnect of the items of
\* subscription s that are in progress, whichever instance made them
ItemRunsOf(s) ==
    BagCardinality([c \in {x \in BagToSet(itemCalls) : x.sub = s} |->
                        CopiesIn(c, itemCalls)])

\* C23 as claimed: the test and auto-connect runs of one subscription never
\* overlap, so that the results an item displays are those of one run.
C23_RunsOfOneSubscriptionNeverOverlap ==
    \A s \in Subs : ItemRunsOf(s) <= 1

\* C24: at any time at most one EventSource of the LogStreamModal is not
\* closed: the cleanup of the effect closes the EventSource of the previous
\* run before the next run creates one, and none is left open once the
\* modal is unmounted.
C24_OneLiveEventSource ==
    /\ logModal.live <= 1
    /\ logModal.live = 1 <=> logModal.es \in {"connecting", "open"}
    /\ logModal.phase # "open" => logModal.live = 0

\* the effect ran again while its first EventSource was open: that one was
\* closed and the second is the only live one
C24_Witness ==
    /\ logModal.phase = "open"
    /\ logModal.sources = 2
    /\ logModal.isConnected
    /\ logModal.es = "connecting"
    /\ logModal.live = 1

\* the first validation message of a parsed error body, "" when it has none
FirstValidationMessage(body) ==
    IF body.detail.t = "array" /\ Len(body.detail.a) > 0
       /\ body.detail.a[1].msg.t = "string"
    THEN body.detail.a[1].msg.s
    ELSE ""

C26_LatencyShownIffEligible ==
    \A k \in 1..Len(sel.shown) :
        LET r == sel.results[k]
        IN sel.shown[k].text = "ms" <=> (AppEligible(r) /\ ItemEligible(r))

\* the fetchData calls in progress, their getServerStatus on either way
DataInFlight ==
    dataReqs
    + BagCardinality([r \in RespsFor("data") |-> CopiesIn(r, statusResps)])

\* a step in which a fetchData call reached its finally
LoadEnded == DataInFlight' < DataInFlight

LoadErrorShown ==
    fetchOut'.calls = <<Toast("error", "FailedToLoadData", "-", NoServer)>>

\* C27: a fetchData call ends in one of two ways: with the error toast and
\* subscriptions, currentStatus and xrayStatus all as they were, or with no
\* toast; a call whose status request got no answer ends the first way; and
\* either way isLoading is false afterwards.
C27_LoadAllOrNothing ==
    [][LoadEnded =>
          /\ isLoading' = FALSE
          /\ LoadErrorShown \/ fetchOut'.calls = <<>>
          /\ LoadErrorShown =>
                UNCHANGED <<subscriptions, currentStatus, xrayStatus>>
          /\ dataReqs' < dataReqs => LoadErrorShown]_vars

\* a reload failed after a load had brought subscriptions and a running
\* status: they are still there, with the error toast
C27_Witness ==
    /\ fetchOut.calls = <<Toast("error", "FailedToLoadData", "-", NoServer)>>
    /\ ~isLoading
    /\ Len(subscriptions) = 2
    /\ currentStatus.status = "running"
    /\ xrayStatus = "available"

\* a step in which App.handleAutoConnect was called with no subscription
EmptyListClicked ==
    /\ Len(subscriptions) = 0
    /\ run.pc = "idle"
    /\ runVars' # runVars

\* C28: App.handleAutoConnect called with an empty subscriptions list only
\* adds the 'Please add a subscription first.' toast: isConnecting stays
\* false, no url-test and no Start is issued and the tunnel is untouched;
\* the 'No responsive servers' toast is added only by a run over a list
\* that has subscriptions.
C28_EmptyListOnlyNotice ==
    /\ [](run.pc # "idle" => Len(run.subs) > 0)
    /\ [][/\ EmptyListClicked =>
                /\ runOut' =
                     <<Toast("info", "AddSubscriptionFirst", "-", NoServer)>>
                /\ ~isConnecting /\ ~isConnecting'
                /\ run' = run
                /\ UNCHANGED <<tunnel, itemCalls, connectCalls, stopReqs>>
          /\ (/\ runOut' # runOut
              /\ \E i \in 1..Len(runOut') :
                    runOut'[i] = Toast("error", "NoResponsive", "-", NoServer))
             => Len(run.subs) > 0]_vars

\* the enabled power button was clicked with an empty list
C28_Witness ==
    /\ runOut = <<Toast("info", "AddSubscriptionFirst", "-", NoServer)>>
    /\ Len(subscriptions) = 0
    /\ PowerButtonEnabled
    /\ ~IsConnected
    /\ ~isConnecting

\* the call of handleConfirmDelete a mounted item of s is awaiting
DeleteInProgress(s) == DeleteCall(s, TRUE) \in BagToSet(deleteCalls)

\* C29: isDeleting of a listed, mounted item is true only while the
\* handleConfirmDelete call that set it is awaiting deleteSubscription: a
\* failed delete sets it back to false, and after a successful delete the
\* list is reloaded and the subscription is either gone or shown by a new
\* item whose isDeleting is false; so the buttons of the confirm dialog of a
\* listed subscription are disabled only during a delete in progress.
C29_DeletingOnlyDuringDelete ==
    /\ [](\A s \in Subs :
            deleteState[s].isDeleting => ItemShown(s) /\ DeleteInProgress(s))
    /\ [][\A s \in Subs :
            (DeleteInProgress(s) /\ ~DeleteInProgress(s)') =>
                ~deleteState'[s].isDeleting]_vars

\* S1 was deleted, the reload has ended and still lists S1 (the reload
\* failed or the backend still returns it): its item is not deleting and
\* its dialog can be opened and confirmed again
C29_Witness ==
    /\ Len(deleteOut) > 0
    /\ deleteOut[1] = Toast("success", "SubscriptionDeleted", "S1", NoServer)
    /\ ItemShown("S1")
    /\ deleteState["S1"].isDeleteModalOpen
    /\ ~deleteState["S1"].isDeleting
    /\ deleteCalls = EmptyBag

====
